---- MODULE Spec2Model ----
(***************************************************************************)
(* The performance page of kira (src/src/routes/+page.svelte): the mount   *)
(* sequence, the 1000 ms poll loop with its isPolling guard, and the       *)
(* derivation of the displayed metrics from get_performance_profile.       *)
(*                                                                         *)
(* JavaScript values are modelled as follows.  null is Null, an object     *)
(* that may be null is Null or Some(v).  Numbers are integers; the three   *)
(* non-finite results a division can give are the values NaN, PosInf and   *)
(* NegInf, which lie outside every range the inputs can produce.  Strings  *)
(* are TLA+ strings.  Math.round is exact rounding of a rational (half     *)
(* up).  The inputs are far below 2^53, where doubles hold integers        *)
(* exactly; a quotient of two of them, as a double, is off by less than    *)
(* one part in 2^52, which can move Math.round only at an exact tie, and   *)
(* the ties the inputs below produce are dyadic, that is exact in doubles. *)
(***************************************************************************)
EXTENDS Integers, Sequences, FiniteSets, TLC

(***************************************************************************)
(* Bounds of the model.                                                    *)
(***************************************************************************)
\* Timer ticks explored after the interval is started.
MaxTicks == 3
\* Commands submitted to the shell session that pass its guard.
MaxCommands == 2

(***************************************************************************)
(* JavaScript helpers.                                                     *)
(***************************************************************************)
Null == [tag |-> "null"]
Some(v) == [tag |-> "some", v |-> v]

NaN == -900000001
PosInf == 900000002
NegInf == -900000003

IsFinite(x) == x \notin {NaN, PosInf, NegInf}

\* Math.round(n / d) for d > 0: the nearest integer, a half rounded up.
JsRound(n, d) == (2 * n + d) \div (2 * d)

\* Math.round((n / d) * k) where d may be 0: x/0 is NaN for x = 0 and
\* +-Infinity otherwise, and Math.round passes all three through.
JsRoundQuot(n, d, k) ==
  IF d > 0 THEN JsRound(k * n, d)
  ELSE IF d < 0 THEN JsRound(-(k * n), -d)
  ELSE IF n = 0 THEN NaN
  ELSE IF n > 0 THEN PosInf ELSE NegInf

\* String.prototype.startsWith
StartsWith(s, p) == Len(s) >= Len(p) /\ SubSeq(s, 1, Len(p)) = p

\* String.prototype.replace(p, r) with a string pattern: the first
\* occurrence of p only.
ReplaceFirst(s, p, r) ==
  LET hits == {i \in 1..(Len(s) - Len(p) + 1) : SubSeq(s, i, i + Len(p) - 1) = p}
  IN IF hits = {} THEN s
     ELSE LET i == CHOOSE h \in hits : \A g \in hits : h <= g
          IN SubSeq(s, 1, i - 1) \o r \o SubSeq(s, i + Len(p), Len(s))

DigitChars == <<"0", "1", "2", "3", "4", "5", "6", "7", "8", "9">>
IsDigit(c) == \E k \in 1..10 : DigitChars[k] = c
DigitVal(c) == (CHOOSE k \in 1..10 : DigitChars[k] = c) - 1

\* The value of the longest prefix of decimal digits of s, after acc.
RECURSIVE ParseDigits(_, _)
ParseDigits(s, acc) ==
  IF Len(s) > 0 /\ IsDigit(Head(s))
  THEN ParseDigits(Tail(s), 10 * acc + DigitVal(Head(s)))
  ELSE acc

RECURSIVE TrimStart(_)
TrimStart(s) == IF Len(s) > 0 /\ Head(s) = " " THEN TrimStart(Tail(s)) ELSE s

HexChars == <<"0", "1", "2", "3", "4", "5", "6", "7", "8", "9",
              "a", "b", "c", "d", "e", "f", "A", "B", "C", "D", "E", "F">>
IsHexDigit(c) == \E k \in 1..22 : HexChars[k] = c
HexVal(c) == LET k == CHOOSE j \in 1..22 : HexChars[j] = c IN IF k > 16 THEN k - 7 ELSE k - 1

\* The value of the longest prefix of hexadecimal digits of s, after acc.
RECURSIVE ParseHexDigits(_, _)
ParseHexDigits(s, acc) ==
  IF Len(s) > 0 /\ IsHexDigit(Head(s))
  THEN ParseHexDigits(Tail(s), 16 * acc + HexVal(Head(s)))
  ELSE acc

\* parseInt(s) without a radix: leading blanks, an optional sign, then
\* decimal digits, or hexadecimal ones after 0x; NaN when no digit follows.
\* Whatever follows the digits is ignored.
ParseInt(s) ==
  LET t == TrimStart(s)
      neg == Len(t) > 0 /\ Head(t) = "-"
      u == IF Len(t) > 0 /\ Head(t) \in {"-", "+"} THEN Tail(t) ELSE t
      hex == Len(u) >= 2 /\ SubSeq(u, 1, 2) \in {"0x", "0X"}
      sign == IF neg THEN -1 ELSE 1
  IN IF hex
     THEN (IF Len(u) > 2 /\ IsHexDigit(u[3]) THEN sign * ParseHexDigits(SubSeq(u, 3, Len(u)), 0)
           ELSE NaN)
     ELSE IF Len(u) > 0 /\ IsDigit(Head(u))
     THEN sign * ParseDigits(u, 0)
     ELSE NaN

\* n.toString().padStart(2, '0')
PadStart2(n) == IF Len(ToString(n)) < 2 THEN "0" \o ToString(n) ELSE ToString(n)

(***************************************************************************)
(* Program constants.                                                      *)
(***************************************************************************)
\* Array(40): the aggregate CPU, memory and FPS series.
SeriesLen == 40
\* Array(25): each per-core series.
CoreSeriesLen == 25
\* Array(8): the per-core display slots, cpu0..cpu7.
NumCores == 8
CoreIdx == 0..(NumCores - 1)

(***************************************************************************)
(* The values a poll derives and the series it feeds, as one record d      *)
(* with the component's variable names as fields.  d.pushed is history:    *)
(* for each series, the values the polls pushed to it, in order.           *)
(***************************************************************************)

\* A Result field of the profile: {Ok: v} or {Err: e}.
Ok(v) == [tag |-> "Ok", v |-> v]
Err(e) == [tag |-> "Err", e |-> e]

\* arr.push(v) with the shift forgotten.
PushNoShift(arr, v) == Append(arr, v)

\* arr.push(v); arr.shift()
PushShift(arr, v) == Tail(Append(arr, v))

\* The share of memory that is available, not the share in use.
MemPctAvailable(memInfo) == JsRoundQuot(memInfo.available_kb, memInfo.total_kb, 100)

\* line 124: Math.round(((total_kb - available_kb) / total_kb) * 100)
MemPct(memInfo) ==
  JsRoundQuot(memInfo.total_kb - memInfo.available_kb, memInfo.total_kb, 100)

\* The megabytes in use with the fraction dropped.
MemUsedMbFloor(memInfo) == (memInfo.total_kb - memInfo.available_kb) \div 1024

\* line 125: Math.round((total_kb - available_kb) / 1024)
MemUsedMb(memInfo) == JsRound(memInfo.total_kb - memInfo.available_kb, 1024)

\* lines 122-129: memory percentage, label and series.
ApplyMemory(d, memory) ==
  IF memory.tag = "Ok"
  THEN LET memInfo == memory.v
           used == memInfo.total_kb - memInfo.available_kb
           pct == MemPct(memInfo)
       IN [d EXCEPT !.currentMem = pct,
                    !.memStr = ToString(MemUsedMb(memInfo)) \o "MB",
                    !.dataMem = PushShift(@, pct),
                    !.pushed.mem = Append(@, pct)]
  ELSE d

\* lines 131-139: the uptime label.  perf.uptime.Ok is tested for
\* truthiness, so Ok(0) is skipped like an Err.
ApplyUptime(d, uptime) ==
  IF uptime.tag = "Ok" /\ uptime.v # 0
  THEN LET ut == uptime.v
           days == ut \div 86400
           hours == (ut % 86400) \div 3600
           minutes == (ut % 3600) \div 60
           seconds == ut % 60
           hms == ToString(hours) \o ":" \o PadStart2(minutes) \o ":" \o PadStart2(seconds)
       IN [d EXCEPT !.uptimeStr =
             IF days > 0 THEN ToString(days) \o "d " \o hms ELSE hms]
  ELSE d

\* The sum of the seven tick fields of one core (lines 148-149, 173-174).
TotalTicks(t) == t.user + t.nice + t.sys + t.idle + t.iowait + t.irq + t.softirq
\* idle + iowait (lines 152, 175).
IdleTicks(t) == t.idle + t.iowait

\* The idle share in place of the busy share: the "1 -" left out.
CpuPctIdleShare(idleDelta, totalDelta) ==
  IF totalDelta > 0 THEN JsRound(100 * idleDelta, totalDelta)
  ELSE IF totalDelta < 0 THEN JsRound(-(100 * idleDelta), -totalDelta)
  ELSE NaN

\* Math.round(100 * (1 - idleDelta / totalDelta)), for any totalDelta: a
\* zero totalDelta gives NaN or an infinity.
CpuPct(idleDelta, totalDelta) ==
  IF totalDelta > 0 THEN JsRound(100 * (totalDelta - idleDelta), totalDelta)
  ELSE IF totalDelta < 0 THEN JsRound(-(100 * (totalDelta - idleDelta)), -totalDelta)
  ELSE IF idleDelta = 0 THEN NaN
  ELSE IF idleDelta > 0 THEN NegInf ELSE PosInf

\* The division made whatever totalDelta is.
AggregateUnguarded(totalDelta) == TRUE

\* The division made when no time has elapsed as well.
AggregateGuardNonNeg(totalDelta) == totalDelta >= 0

\* line 154: the guard of the aggregate division.
AggregateGuard(totalDelta) == totalDelta > 0

\* The new percentage averaged with the one displayed.
AggregateCpuSmoothed(currentCpu, curr, prev) ==
  LET totalDelta == TotalTicks(curr) - TotalTicks(prev)
      idleDelta == IdleTicks(curr) - IdleTicks(prev)
  IN IF AggregateGuard(totalDelta)
     THEN (currentCpu + CpuPct(idleDelta, totalDelta)) \div 2
     ELSE currentCpu

\* lines 145-156: the aggregate percentage from entry 0 of both readings.
AggregateCpu(currentCpu, curr, prev) ==
  LET totalDelta == TotalTicks(curr) - TotalTicks(prev)
      idleDelta == IdleTicks(curr) - IdleTicks(prev)
  IN IF AggregateGuard(totalDelta) THEN CpuPct(idleDelta, totalDelta) ELSE currentCpu

\* lastCpuData.find(c => c.name === cpuName): the first match, or Null.
FindCore(cpus, cpuName) ==
  LET hits == {k \in 1..Len(cpus) : cpus[k].name = cpuName}
  IN IF hits = {} THEN Null
     ELSE Some(cpus[CHOOSE k \in hits : \A g \in hits : k <= g])

\* lines 160-188: one iteration of the per-core loop, for entry core of the
\* current reading against the previous reading prevCpus.
CoreStep(d, core, prevCpus) ==
  LET cpuName == core.name
      idx == ParseInt(ReplaceFirst(cpuName, "cpu", ""))
      c_prv_cpu == FindCore(prevCpus, cpuName)
  IN IF cpuName = "" \/ ~StartsWith(cpuName, "cpu") THEN d
     ELSE IF idx = NaN \/ idx < 0 \/ idx >= NumCores THEN d
     ELSE IF c_prv_cpu = Null THEN d
     ELSE LET c_cur == core.times
              c_prv == c_prv_cpu.v.times
              core_tot == TotalTicks(c_cur) - TotalTicks(c_prv)
              core_idle == IdleTicks(c_cur) - IdleTicks(c_prv)
              u == IF core_tot > 0 THEN CpuPct(core_idle, core_tot) ELSE 0
          IN [d EXCEPT !.coreUsages[idx] = u,
                       !.coreSpeeds[idx] =
                          IF core.speed_mhz = Null THEN 0 ELSE core.speed_mhz.v,
                       !.dataCores[idx] = PushShift(@, u),
                       !.pushed.cores[idx] = Append(@, u)]

\* Each core diffed against the entry at its own position in the stored
\* reading, whatever that entry's name.
RECURSIVE CoreLoopByPosition(_, _, _, _)
CoreLoopByPosition(d, currentCpus, prevCpus, i) ==
  IF i < Len(currentCpus)
  THEN CoreLoopByPosition(
         CoreStep(d, currentCpus[i + 1],
                  IF i + 1 <= Len(prevCpus)
                  THEN <<[prevCpus[i + 1] EXCEPT !.name = currentCpus[i + 1].name]>>
                  ELSE <<>>),
         currentCpus, prevCpus, i + 1)
  ELSE d

\* The loop left at the first entry whose name or index is rejected.
RECURSIVE CoreLoopStopAtInvalid(_, _, _, _)
CoreLoopStopAtInvalid(d, currentCpus, prevCpus, i) ==
  IF i < Len(currentCpus)
     /\ StartsWith(currentCpus[i + 1].name, "cpu")
     /\ ParseInt(ReplaceFirst(currentCpus[i + 1].name, "cpu", "")) \in 0..(NumCores - 1)
  THEN CoreLoopStopAtInvalid(CoreStep(d, currentCpus[i + 1], prevCpus),
                             currentCpus, prevCpus, i + 1)
  ELSE d

\* line 159: for (i = 1; i < currentCpus.length; i++), i counted from 0.
RECURSIVE CoreLoop(_, _, _, _)
CoreLoop(d, currentCpus, prevCpus, i) ==
  IF i < Len(currentCpus)
  THEN CoreLoop(CoreStep(d, currentCpus[i + 1], prevCpus), currentCpus, prevCpus, i + 1)
  ELSE d

\* line 144: whether a delta is derived from the stored reading.
HasPreviousCpu(lastCpuData) == lastCpuData # Null

\* A missing stored reading taken as a reading of zeros, so that the first
\* reading of a session is diffed against zero.
ApplyCpuFromZero(d, cpu) ==
  IF cpu.tag = "Ok" /\ Len(cpu.v) > 0
  THEN LET currentCpus == cpu.v
           zero == [t \in {"user", "nice", "sys", "idle", "iowait", "irq", "softirq"} |-> 0]
           last == IF HasPreviousCpu(d.lastCpuData) THEN d.lastCpuData.v
                   ELSE [k \in 1..Len(currentCpus) |-> [currentCpus[k] EXCEPT !.times = zero]]
           d1 == CoreLoop(
                   [d EXCEPT !.currentCpu = AggregateCpu(@, currentCpus[1].times, last[1].times)],
                   currentCpus, last, 1)
       IN [d1 EXCEPT !.lastCpuData = Some(currentCpus),
                     !.dataCpu = PushShift(@, d1.currentCpu),
                     !.pushed.cpu = Append(@, d1.currentCpu)]
  ELSE d

\* lines 141-196: CPU usage, the stored reading and the aggregate series.
ApplyCpu(d, cpu) ==
  IF cpu.tag = "Ok" /\ Len(cpu.v) > 0
  THEN LET currentCpus == cpu.v
           d1 == IF HasPreviousCpu(d.lastCpuData) /\ Len(d.lastCpuData.v) > 0
                 THEN CoreLoop(
                        [d EXCEPT !.currentCpu =
                           AggregateCpu(@, currentCpus[1].times, d.lastCpuData.v[1].times)],
                        currentCpus, d.lastCpuData.v, 1)
                 ELSE d
       IN [d1 EXCEPT !.lastCpuData = Some(currentCpus),
                     !.dataCpu = PushShift(@, d1.currentCpu),
                     !.pushed.cpu = Append(@, d1.currentCpu)]
  ELSE d

\* ToNumber of a flip counter that may be null: null counts as 0.
FlipsNum(flips) == IF flips = Null THEN 0 ELSE flips.v

\* Flips per millisecond: the factor 1000 left out.
FpsRateNoScale(deltaFlips, deltaTime) == JsRound(deltaFlips, deltaTime)

\* line 204: Math.round((deltaFlips * 1000) / deltaTime), for deltaTime > 0.
FpsRate(deltaFlips, deltaTime) == JsRound(deltaFlips * 1000, deltaTime)

\* An unchanged flip counter leaving the displayed FPS as it is.
StaticFpsKeeps(currentFps) == currentFps

\* line 207: currentFps = 0 for a static screen.
StaticFps(currentFps) == 0

\* A reading whose flip counter fell not taken as the new stored reading.
ApplyFpsKeepBaseline(d, fps) ==
  IF fps.tag = "Ok"
  THEN LET fpsData == fps.v
           last == d.lastFpsData
           newFps ==
             IF fpsData.flips # Null /\ last # Null
                /\ FlipsNum(fpsData.flips) > FlipsNum(last.v.flips)
             THEN LET deltaFlips == FlipsNum(fpsData.flips) - FlipsNum(last.v.flips)
                      deltaTime == fpsData.timestamp_ms - last.v.timestamp_ms
                  IN IF deltaTime > 0 THEN FpsRate(deltaFlips, deltaTime)
                     ELSE d.currentFps
             ELSE IF last # Null /\ fpsData.flips = last.v.flips THEN StaticFps(d.currentFps)
             ELSE d.currentFps
           fell == last # Null /\ FlipsNum(fpsData.flips) < FlipsNum(last.v.flips)
       IN [d EXCEPT !.currentFps = newFps,
                    !.lastFpsData = IF fell THEN @ ELSE Some(fpsData),
                    !.dataFps = PushShift(@, newFps),
                    !.pushed.fps = Append(@, newFps)]
  ELSE d

\* lines 198-214: FPS, the stored display reading and the FPS series.
ApplyFps(d, fps) ==
  IF fps.tag = "Ok"
  THEN LET fpsData == fps.v
           last == d.lastFpsData
           newFps ==
             IF fpsData.flips # Null /\ last # Null
                /\ FlipsNum(fpsData.flips) > FlipsNum(last.v.flips)
             THEN LET deltaFlips == FlipsNum(fpsData.flips) - FlipsNum(last.v.flips)
                      deltaTime == fpsData.timestamp_ms - last.v.timestamp_ms
                  IN IF deltaTime > 0 THEN FpsRate(deltaFlips, deltaTime)
                     ELSE d.currentFps
             ELSE IF last # Null /\ fpsData.flips = last.v.flips THEN StaticFps(d.currentFps)
             ELSE d.currentFps
       IN [d EXCEPT !.currentFps = newFps,
                    !.lastFpsData = Some(fpsData),
                    !.dataFps = PushShift(@, newFps),
                    !.pushed.fps = Append(@, newFps)]
  ELSE d

\* The profile applied only when no field is Err: the first failed field
\* aborts the update.
ApplyPerfAbort(d, perf) ==
  IF \E f \in {"memory", "uptime", "cpu", "fps"} : perf[f].tag = "Err"
  THEN d
  ELSE ApplyFps(ApplyCpu(ApplyUptime(ApplyMemory(d, perf.memory), perf.uptime), perf.cpu),
                perf.fps)

\* lines 122-214: the whole of what a resolved profile changes, in the
\* order of the code: memory, uptime, cpu, fps.
ApplyPerf(d, perf) ==
  ApplyFps(ApplyCpu(ApplyUptime(ApplyMemory(d, perf.memory), perf.uptime), perf.cpu), perf.fps)

(***************************************************************************)
(* State.                                                                  *)
(***************************************************************************)
VARIABLES
  phase,           \* where onMount stands: "created", "loadDevices", "charts", "polling"
  family,          \* which inputs the environment of this run draws from
  isTauri,         \* isTauri; invoke is set exactly when isTauri is
  devices,         \* the ids of devices
  selectedDevice,
  error,
  isPolling,
  topPackageName,
  currentFps, currentCpu, currentMem, memStr, uptimeStr,
  lastFpsData, lastCpuData,
  dataCpu, dataMem, dataFps, dataCores, coreUsages, coreSpeeds,
  inflight,        \* the suspended poll callbacks: [id, stage, serial], stage the awaited call
  pushed,          \* history: per series, the values the polls pushed, in order
  chartSeed,       \* history: the draw of genData, -1 before the charts are built
  ticks,           \* history: timer ticks fired
  fetches,         \* history: polls issued (get_top_package calls)
  idleTicks,       \* history: ticks fired with a device selected and nothing in flight
  pollStart,       \* history: the displayed state when the latest poll was issued
  lastDone,        \* history: how the latest poll ended, and with which profile
  cpuMonotone      \* history: no tick field of entry 0 ever went down between readings

(***************************************************************************)
(* The shell session: the shell route (src/unnamed/part_001) and the       *)
(* ShellPanel component.  Both keep the same state; shellHistory is their  *)
(* history, shellInvoke whether invoke is set, shellDevice the serial.     *)
(***************************************************************************)
VARIABLES
  shell,           \* "none", or the component mounted: "page" or "panel"
  shellLeft,       \* window.history.back() has left the route
  shellInvoke,
  shellDevice,
  shellHistory,    \* the output entries, [type, content]
  inputValue,
  isExecuting,
  commandHistory,
  historyIndex,
  running,         \* the suspended executeCommand calls: [id, cmd, at], at the await reached
  submitted,       \* history: submissions that passed the guard
  calls,           \* history: execute_shell_command calls issued
  handled          \* history: how the latest executeCommand ended

shellVars ==
  <<shell, shellLeft, shellInvoke, shellDevice, shellHistory, inputValue, isExecuting,
    commandHistory, historyIndex, running, submitted, calls, handled>>

progVars ==
  <<isTauri, devices, selectedDevice, error, isPolling, topPackageName,
    currentFps, currentCpu, currentMem, memStr, uptimeStr, lastFpsData, lastCpuData,
    dataCpu, dataMem, dataFps, dataCores, coreUsages, coreSpeeds>>

vars ==
  <<phase, family, progVars, inflight, pushed, chartSeed, ticks, fetches, idleTicks,
    pollStart, lastDone, cpuMonotone, shellVars>>

\* The record the derivation operators work on.
Display ==
  [currentFps |-> currentFps, currentCpu |-> currentCpu, currentMem |-> currentMem,
   memStr |-> memStr, uptimeStr |-> uptimeStr,
   lastFpsData |-> lastFpsData, lastCpuData |-> lastCpuData,
   dataCpu |-> dataCpu, dataMem |-> dataMem, dataFps |-> dataFps,
   dataCores |-> dataCores, coreUsages |-> coreUsages, coreSpeeds |-> coreSpeeds,
   pushed |-> pushed]

SetDisplay(d) ==
  /\ currentFps' = d.currentFps
  /\ currentCpu' = d.currentCpu
  /\ currentMem' = d.currentMem
  /\ memStr' = d.memStr
  /\ uptimeStr' = d.uptimeStr
  /\ lastFpsData' = d.lastFpsData
  /\ lastCpuData' = d.lastCpuData
  /\ dataCpu' = d.dataCpu
  /\ dataMem' = d.dataMem
  /\ dataFps' = d.dataFps
  /\ dataCores' = d.dataCores
  /\ coreUsages' = d.coreUsages
  /\ coreSpeeds' = d.coreSpeeds
  /\ pushed' = d.pushed

displayVars ==
  <<currentFps, currentCpu, currentMem, memStr, uptimeStr, lastFpsData, lastCpuData,
    dataCpu, dataMem, dataFps, dataCores, coreUsages, coreSpeeds, pushed>>

\* What a poll can change before its profile arrives, as it is when the
\* poll is issued.
Shown == [topPackageName |-> topPackageName, error |-> error]

\* Array(n).fill(0)
Zeros(n) == [i \in 1..n |-> 0]

(***************************************************************************)
(* Inputs.  The environment of a run belongs to one family, fixed at       *)
(* construction; a family varies one part of the input and holds the rest  *)
(* fixed.                                                                  *)
(*   "sched"   everything that decides the scheduling: Tauri present or    *)
(*             not, the device list, rejected and malformed results        *)
(*   "fields"  every subset of the four profile fields failing             *)
(*   "cpu"     CPU readings, monotone or not, with the other fields Err    *)
(*   "fps"     display readings: flips rising, unchanged, falling or null, *)
(*             timestamps advancing or not, with the other fields Err      *)
(*   "cores"   CPU readings whose cores are reordered, left out or carry   *)
(*             names that are not cpu0..cpu7, with the other fields Err    *)
(*   "mem"     memory readings, a zero total and an available above the    *)
(*             total among them, with the other fields Err                 *)
(*   "uptime"  uptime readings from 0 seconds to several days, with the    *)
(*             other fields Err                                            *)
(***************************************************************************)
Families == {"sched", "fields", "cpu", "fps", "cores", "mem", "uptime"}

Reject(e) == [kind |-> "reject", e |-> e]
Resolve(v) == [kind |-> "resolve", v |-> v]

\* String(e) of the TypeError a null profile raises at perf.memory.
TypeErrorText == "TypeError: Cannot read properties of null (reading 'memory')"

Times(user, nice, sys, idle, iowait, irq, softirq) ==
  [user |-> user, nice |-> nice, sys |-> sys, idle |-> idle, iowait |-> iowait,
   irq |-> irq, softirq |-> softirq]

Core(name, times, mhz) == [name |-> name, times |-> times, speed_mhz |-> mhz]

Mem(total, available) == [total_kb |-> total, available_kb |-> available]
Fps(flips, ts) == [flips |-> flips, timestamp_ms |-> ts]

\* The readings of a device whose counters advance: sample k of the run.
\* Samples 1 and 2 are the pair total 400 / idle 200, total 460 / idle 210.
SampleCpu(k) ==
  <<Core("cpu", Times(100 + 50 * (k - 1), 0, 100, 200 + 10 * (k - 1), 0, 0, 0), Null),
    Core("cpu0", Times(60 + 20 * (k - 1), 0, 50, 100 + 5 * (k - 1), 0, 0, 0), Some(1800)),
    Core("cpu1", Times(40 + 30 * (k - 1), 0, 50, 100 + 5 * (k - 1), 0, 0, 0), Some(2400))>>

SampleProfile(k) ==
  [memory |-> Ok(Mem(8000000, 2000000 + 1000000 * (k - 1))),
   uptime |-> Ok(3661 + k),
   cpu |-> Ok(SampleCpu(k)),
   fps |-> Ok(Fps(Some(1000 + 30 * (k - 1)), 1000 * (k - 1)))]

AllErr ==
  [memory |-> Err("meminfo"), uptime |-> Err("uptime"), cpu |-> Err("stat"),
   fps |-> Err("flips")]

FieldNames == {"memory", "uptime", "cpu", "fps"}

\* profile with the fields in failed replaced by Err.
WithErr(profile, failed) ==
  [f \in FieldNames |-> IF f \in failed THEN AllErr[f] ELSE profile[f]]

\* CPU readings that are free to go up, stay or go down between polls.
CpuReadings ==
  { <<Core("cpu", Times(100, 0, 100, 200, 0, 0, 0), Null),
      Core("cpu0", Times(50, 0, 50, 100, 0, 0, 0), Some(1800))>>,
    <<Core("cpu", Times(150, 0, 100, 210, 0, 0, 0), Null),
      Core("cpu0", Times(75, 0, 50, 105, 0, 0, 0), Some(1800))>>,
    <<Core("cpu", Times(150, 0, 100, 200, 10, 0, 0), Null),
      Core("cpu1", Times(75, 0, 50, 105, 0, 0, 0), Null)>>,
    <<Core("cpu", Times(260, 0, 100, 100, 0, 0, 0), Null)>>,
    <<Core("cpu", Times(10, 0, 10, 20, 0, 0, 0), Null),
      Core("cpu0", Times(5, 0, 5, 10, 0, 0, 0), Some(600))>>,
    <<Core("cpu", Times(200, 0, 100, 220, 10, 0, 0), Null),
      Core("cpu0", Times(90, 0, 50, 110, 0, 0, 0), Some(1800)),
      Core("cpu1", Times(110, 0, 50, 110, 10, 0, 0), Some(2000))>>,
    <<>> }

\* Display readings that are free to go up, stay or go down between polls.
FpsReadings ==
  { Fps(Some(1000), 0), Fps(Some(1030), 1000), Fps(Some(1030), 2000),
    Fps(Some(1050), 1600), Fps(Some(900), 3000), Fps(Some(960), 4000), Fps(Null, 4000) }

\* An entry that is not one of cpu0..cpu7, with ticks that advance with n.
Stray(name, n) == Core(name, Times(10 * n, 0, 10, 10 * n, 0, 0, 0), Some(999))

\* CPU readings of a device that reorders its cores, leaves one out, or
\* reports entries under other names.
CoreReadings ==
  { <<Core("cpu", Times(100, 0, 100, 200, 0, 0, 0), Null),
      Core("cpu0", Times(50, 0, 50, 100, 0, 0, 0), Some(1800)),
      Core("cpu1", Times(40, 0, 50, 100, 0, 0, 0), Some(2400))>>,
    <<Core("cpu", Times(150, 0, 100, 210, 0, 0, 0), Null),
      Core("cpu1", Times(70, 0, 50, 105, 0, 0, 0), Some(2400)),
      Core("cpu0", Times(75, 0, 50, 105, 0, 0, 0), Some(1800))>>,
    <<Core("cpu", Times(200, 0, 100, 220, 0, 0, 0), Null),
      Core("cpu1", Times(100, 0, 50, 110, 0, 0, 0), Some(2400))>>,
    <<Core("cpu", Times(250, 0, 100, 230, 0, 0, 0), Null),
      Stray("cpuX", 1), Core("cpu0", Times(100, 0, 50, 110, 0, 0, 0), Some(1800)),
      Stray("cpu8", 1), Stray("", 1), Stray("core1", 1),
      Core("cpu1", Times(130, 0, 50, 115, 0, 0, 0), Some(2400)),
      Stray("cpu-1", 1), Stray("cpu", 1)>>,
    <<Core("cpu", Times(300, 0, 100, 240, 0, 0, 0), Null),
      Stray("cpu", 2), Stray("cpu-1", 2),
      Core("cpu1", Times(170, 0, 50, 120, 0, 0, 0), Some(2400)),
      Stray("core1", 2), Stray("", 2), Stray("cpu8", 2),
      Core("cpu0", Times(130, 0, 50, 120, 0, 0, 0), Some(1800)), Stray("cpuX", 2)>> }

\* Memory readings: total_kb and available_kb as the transport may give
\* them.
MemReadings ==
  { Mem(8000000, 2000000), Mem(8000000, 3000000), Mem(4096, 0),
    Mem(0, 0), Mem(0, 1024), Mem(1000, 2000) }

\* Uptime readings, in seconds.
UptimeReadings == {0, 59, 3661, 86399, 86400, 90061, 1000000}

TauriOutcomes(fam) == IF fam = "sched" THEN BOOLEAN ELSE {TRUE}

\* get_devices: rejected, or the serials of the devices found.
DeviceOutcomes(fam) ==
  IF fam = "sched"
  THEN {Reject("adb not found"), Resolve(<<>>), Resolve(<<"A">>), Resolve(<<"B", "A">>)}
  ELSE {Resolve(<<"A">>)}

\* list_processes
ProcessOutcomes(fam) ==
  IF fam = "sched" THEN {Reject("device offline"), Resolve(<<>>)} ELSE {Resolve(<<>>)}

\* The draws of genData, as the seed of a fixed sequence.
Seeds(fam) == IF fam = "fields" THEN {0, 7} ELSE {0}

\* get_top_package: rejected, null, an object without a name, or a name.
TopOutcomes(fam) ==
  IF fam = "sched"
  THEN {Reject("device offline"), Resolve(Null), Resolve(Some([name |-> ""])),
        Resolve(Some([name |-> "com.android.chrome"]))}
  ELSE {Resolve(Some([name |-> "com.android.chrome"]))}

\* get_performance_profile for poll number k: rejected, null, or a profile.
PerfOutcomes(fam, k) ==
  CASE fam = "sched" ->
         {Reject("device offline"), Resolve(Null), Resolve(Some(SampleProfile(k)))}
    [] fam = "fields" ->
         {Resolve(Some(WithErr(SampleProfile(k), failed))) : failed \in SUBSET FieldNames}
    [] fam = "cpu" ->
         {Resolve(Some([AllErr EXCEPT !.cpu = Ok(r)])) : r \in CpuReadings}
           \cup {Resolve(Some(AllErr))}
    [] fam = "fps" ->
         {Resolve(Some([AllErr EXCEPT !.fps = Ok(f)])) : f \in FpsReadings}
           \cup {Resolve(Some(AllErr))}
    [] fam = "cores" ->
         {Resolve(Some([AllErr EXCEPT !.cpu = Ok(r)])) : r \in CoreReadings}
    [] fam = "mem" ->
         {Resolve(Some([AllErr EXCEPT !.memory = Ok(m)])) : m \in MemReadings}
    [] fam = "uptime" ->
         {Resolve(Some([AllErr EXCEPT !.uptime = Ok(u)])) : u \in UptimeReadings}

\* genData(count, min, max): count draws from min..max.
GenData(count, min, max, seed) ==
  [i \in 1..count |-> min + ((seed * i) % (max - min + 1))]

(***************************************************************************)
(* Construction: the component's declarations, lines 4-41.                 *)
(***************************************************************************)
PageInit ==
  /\ phase = "created"
  /\ family \in Families
  /\ isTauri = FALSE
  /\ devices = <<"1">>
  /\ selectedDevice = ""
  /\ error = ""
  /\ isPolling = FALSE
  /\ topPackageName = "Browser"
  /\ currentFps = 0
  /\ currentCpu = 0
  /\ currentMem = 0
  /\ memStr = "0MB"
  /\ uptimeStr = "0:00:00:00"
  /\ lastFpsData = Null
  /\ lastCpuData = Null
  /\ dataCpu = Zeros(SeriesLen)
  /\ dataMem = Zeros(SeriesLen)
  /\ dataFps = Zeros(SeriesLen)
  /\ dataCores = [i \in CoreIdx |-> Zeros(CoreSeriesLen)]
  /\ coreUsages = [i \in CoreIdx |-> 0]
  /\ coreSpeeds = [i \in CoreIdx |-> 0]
  /\ inflight = {}
  /\ pushed = [cpu |-> <<>>, mem |-> <<>>, fps |-> <<>>, cores |-> [i \in CoreIdx |-> <<>>]]
  /\ chartSeed = -1
  /\ ticks = 0
  /\ fetches = 0
  /\ idleTicks = 0
  /\ pollStart = [topPackageName |-> "Browser", error |-> ""]
  /\ lastDone = [op |-> "none", perf |-> Null, e |-> "", id |-> 0, at |-> 0]
  /\ cpuMonotone = TRUE

\* The declarations of the shell session: part_001 lines 4-19, ShellPanel
\* lines 22-25.
ShellDeclared ==
  /\ shellLeft = FALSE
  /\ shellInvoke = FALSE
  /\ shellDevice = ""
  /\ shellHistory = <<>>
  /\ inputValue = ""
  /\ isExecuting = FALSE
  /\ commandHistory = <<>>
  /\ historyIndex = -1
  /\ running = {}
  /\ submitted = 0
  /\ calls = 0
  /\ handled = [cmd |-> "", how |-> "none"]

\* The performance page alone: no shell session is open.
Init == PageInit /\ shell = "none" /\ ShellDeclared

(***************************************************************************)
(* onMount, lines 43-109, up to the start of the interval.                 *)
(***************************************************************************)
history == <<chartSeed, ticks, fetches, idleTicks, pollStart, lastDone, cpuMonotone>>

\* lines 44-52: the dynamic import of the Tauri API succeeds or not.
ImportTauri ==
  /\ phase = "created"
  /\ \E ok \in TauriOutcomes(family) : isTauri' = ok
  /\ phase' = "loadDevices"
  /\ UNCHANGED <<shellVars, family, devices, selectedDevice, error, isPolling, topPackageName,
                 displayVars, inflight, history>>

\* loadDevices also reachable once the interval runs, as from a refresh
\* control.
LoadDevicesAnyTime == phase \in {"loadDevices", "polling"}

\* loadDevices has one caller, onMount at line 54, before the interval
\* exists.
LoadDevicesCallable == phase = "loadDevices"

\* lines 225-250 with loadPackages, lines 252-274: what loadDevices leaves
\* in devices, selectedDevice and error, for the results got of get_devices
\* and pr of list_processes.
LoadDevicesResult(got, pr) ==
  IF isTauri /\ got.kind = "reject"
  THEN [devices |-> devices, selectedDevice |-> selectedDevice, error |-> got.e]
  ELSE LET devs == IF isTauri /\ Len(got.v) > 0 THEN got.v ELSE devices
           sel == IF Len(devs) > 0 THEN devs[1] ELSE selectedDevice
       IN [devices |-> devs, selectedDevice |-> sel,
           error |-> IF Len(devs) > 0 /\ sel # "" /\ isTauri /\ pr.kind = "reject"
                     THEN pr.e ELSE ""]

LoadDevices ==
  /\ LoadDevicesCallable
  /\ \E got \in DeviceOutcomes(family), pr \in ProcessOutcomes(family) :
       LET res == LoadDevicesResult(got, pr)
       IN /\ devices' = res.devices
          /\ selectedDevice' = res.selectedDevice
          /\ error' = res.error
  /\ phase' = IF phase = "loadDevices" THEN "charts" ELSE phase
  /\ UNCHANGED <<shellVars, family, isTauri, isPolling, topPackageName, displayVars, inflight,
                 history>>

\* lines 76-109: the three series are replaced by generated data, the
\* charts are built, isPolling is declared and the interval is started.
StartCharts ==
  /\ phase = "charts"
  /\ \E sd \in Seeds(family) :
       /\ dataCpu' = GenData(SeriesLen, 20, 40, sd)
       /\ dataMem' = GenData(SeriesLen, 50, 70, sd)
       /\ dataFps' = GenData(SeriesLen, 0, 10, sd)
       /\ chartSeed' = sd
  /\ isPolling' = FALSE
  /\ phase' = "polling"
  /\ UNCHANGED <<shellVars, family, isTauri, devices, selectedDevice, error, topPackageName,
                 currentFps, currentCpu, currentMem, memStr, uptimeStr,
                 lastFpsData, lastCpuData, dataCores, coreUsages, coreSpeeds, pushed,
                 inflight, ticks, fetches, idleTicks, pollStart, lastDone, cpuMonotone>>

(***************************************************************************)
(* The poll loop, lines 111-222.                                           *)
(***************************************************************************)
\* The guard without its !isPolling conjunct.
PollGuardNoFlag == isTauri /\ selectedDevice # ""

\* The guard without its selectedDevice conjunct.
PollGuardNoDevice == isTauri /\ ~isPolling

\* line 112: isTauri && invoke && selectedDevice && !isPolling
PollGuard == isTauri /\ selectedDevice # "" /\ ~isPolling

\* The interval callback up to its first await: lines 112-115.
Tick ==
  /\ phase = "polling"
  /\ ticks < MaxTicks
  /\ ticks' = ticks + 1
  /\ idleTicks' = IF selectedDevice # "" /\ inflight = {} THEN idleTicks + 1 ELSE idleTicks
  /\ IF PollGuard
     THEN /\ isPolling' = TRUE
          /\ inflight' = inflight \cup
               {[id |-> fetches + 1, stage |-> "top", serial |-> selectedDevice]}
          /\ fetches' = fetches + 1
          /\ pollStart' = Shown
     ELSE UNCHANGED <<isPolling, inflight, fetches, pollStart>>
  /\ UNCHANGED <<shellVars, phase, family, isTauri, devices, selectedDevice, error, topPackageName,
                 displayVars, chartSeed, lastDone, cpuMonotone>>

\* The error logged to the console only.
CatchSilent(e) == error' = error

\* The first error kept: a later failure does not replace the notice.
CatchOnce(e) == error' = IF error = "" THEN e ELSE error

\* catch, lines 215-218: error = String(e).
Catch(e) == error' = e

\* The flag left as it is: isPolling = false reached on no path.
FinallyMissing == isPolling' = isPolling

\* finally, lines 218-220.
Finally == isPolling' = FALSE

\* History: the poll r ended in way op.
Done(op, r, perf, e) == [op |-> op, perf |-> perf, e |-> e, id |-> r.id, at |-> ticks]

\* get_top_package resolves: lines 115-120, up to the second await.
TopResolve ==
  \E r \in inflight, res \in TopOutcomes(family) :
    /\ r.stage = "top"
    /\ res.kind = "resolve"
    /\ topPackageName' = IF res.v # Null /\ res.v.v.name # ""
                         THEN res.v.v.name ELSE topPackageName
    /\ inflight' = (inflight \ {r}) \cup
         {[id |-> r.id, stage |-> "perf", serial |-> selectedDevice]}
    /\ UNCHANGED <<shellVars, phase, family, isTauri, devices, selectedDevice, error, isPolling,
                   displayVars, history>>

\* get_top_package rejects: catch and finally, lines 215-220.
TopReject ==
  \E r \in inflight, res \in TopOutcomes(family) :
    /\ r.stage = "top"
    /\ res.kind = "reject"
    /\ Catch(res.e)
    /\ Finally
    /\ inflight' = inflight \ {r}
    /\ lastDone' = Done("topReject", r, Null, res.e)
    /\ UNCHANGED <<shellVars, phase, family, isTauri, devices, selectedDevice, topPackageName,
                   displayVars, chartSeed, ticks, fetches, idleTicks, pollStart, cpuMonotone>>

\* Whether no tick field went down from prev to curr.
NonDecreasing(prev, curr) ==
  /\ curr.user >= prev.user /\ curr.nice >= prev.nice /\ curr.sys >= prev.sys
  /\ curr.idle >= prev.idle /\ curr.iowait >= prev.iowait
  /\ curr.irq >= prev.irq /\ curr.softirq >= prev.softirq

StillMonotone(profile) ==
  IF profile.cpu.tag = "Ok" /\ Len(profile.cpu.v) > 0 /\ lastCpuData # Null
  THEN cpuMonotone /\ NonDecreasing(lastCpuData.v[1].times, profile.cpu.v[1].times)
  ELSE cpuMonotone

\* get_performance_profile resolves with a profile: lines 120-214, then
\* finally.
PerfResolve ==
  \E r \in inflight : \E res \in PerfOutcomes(family, r.id) :
    /\ r.stage = "perf"
    /\ res.kind = "resolve"
    /\ res.v # Null
    /\ SetDisplay(ApplyPerf(Display, res.v.v))
    /\ Finally
    /\ inflight' = inflight \ {r}
    /\ lastDone' = Done("applied", r, res.v, "")
    /\ cpuMonotone' = StillMonotone(res.v.v)
    /\ UNCHANGED <<shellVars, phase, family, isTauri, devices, selectedDevice, error,
                   topPackageName, chartSeed, ticks, fetches, idleTicks, pollStart>>

\* get_performance_profile resolves with null: perf.memory at line 122
\* throws, then catch and finally.
PerfThrow ==
  \E r \in inflight : \E res \in PerfOutcomes(family, r.id) :
    /\ r.stage = "perf"
    /\ res.kind = "resolve"
    /\ res.v = Null
    /\ Catch(TypeErrorText)
    /\ Finally
    /\ inflight' = inflight \ {r}
    /\ lastDone' = Done("perfThrow", r, Null, TypeErrorText)
    /\ UNCHANGED <<shellVars, phase, family, isTauri, devices, selectedDevice, topPackageName,
                   displayVars, chartSeed, ticks, fetches, idleTicks, pollStart, cpuMonotone>>

\* get_performance_profile rejects: catch and finally, lines 215-220.
PerfReject ==
  \E r \in inflight : \E res \in PerfOutcomes(family, r.id) :
    /\ r.stage = "perf"
    /\ res.kind = "reject"
    /\ Catch(res.e)
    /\ Finally
    /\ inflight' = inflight \ {r}
    /\ lastDone' = Done("perfReject", r, Null, res.e)
    /\ UNCHANGED <<shellVars, phase, family, isTauri, devices, selectedDevice, topPackageName,
                   displayVars, chartSeed, ticks, fetches, idleTicks, pollStart, cpuMonotone>>

Next ==
  \/ ImportTauri
  \/ LoadDevices
  \/ StartCharts
  \/ Tick
  \/ TopResolve
  \/ TopReject
  \/ PerfResolve
  \/ PerfThrow
  \/ PerfReject

Spec == Init /\ [][Next]_vars

(***************************************************************************)
(* The shell session.  Line numbers are those of src/unnamed/part_001      *)
(* (the shell route, "page"); ShellPanel.svelte ("panel") has the same     *)
(* handlers at lines 36-124, without the built-in exit and without a       *)
(* device test.  The texts of the entries are written in ASCII: the       *)
(* arrows of the hint read "up/down" and the check mark before "exit:" is  *)
(* left out.                                                               *)
(***************************************************************************)
\* Commands kept for the arrow keys: lines 79-82.
HistoryCap == 100

RECURSIVE TrimEnd(_)
TrimEnd(s) ==
  IF Len(s) > 0 /\ SubSeq(s, Len(s), Len(s)) = " " THEN TrimEnd(SubSeq(s, 1, Len(s) - 1)) ELSE s

\* String.prototype.trim, for blanks.
Trim(s) == TrimStart(TrimEnd(s))

Entry(type, content) == [type |-> type, content |-> content]

\* What the user types into the input.
ShellInputs == {"ls", " id ", "clear", "exit", " "}

\* execute_shell_command: rejected, or a result with or without output.
ShellResult(stdout, stderr, exit_code) ==
  [stdout |-> stdout, stderr |-> stderr, exit_code |-> exit_code, duration_ms |-> 12]

ShellOutcomes ==
  {Reject("device offline"),
   Resolve(ShellResult("bin", "", 0)), Resolve(ShellResult("", "not found", 127)),
   Resolve(ShellResult("bin", "warning", 0)), Resolve(ShellResult("", "", 0))}

\* The serial in the URL of the route (lines 34-35), or the serial prop of
\* the panel.
ShellSerials(kind) == IF kind = "page" THEN {"", "A"} ELSE {"A"}

\* get_devices at mount of the route: lines 38-48.
ShellDeviceOutcomes == {Reject("adb not found"), Resolve(<<>>), Resolve(<<"B">>)}

\* selectedDevice once the route is mounted: lines 35-48.
MountedDevice(kind, inv, serial, got) ==
  IF kind = "page" /\ serial = "" /\ inv /\ got.kind = "resolve" /\ Len(got.v) > 0
  THEN got.v[1] ELSE serial

\* history once mounted: lines 50-62, ShellPanel lines 18-21.
MountedHistory(kind, device) ==
  IF kind = "panel"
  THEN <<Entry("info", "ADB Shell connected to " \o device),
         Entry("info", "Type a command and press Enter. Use up/down for history.")>>
  ELSE IF device # ""
  THEN <<Entry("info", "Connected to " \o device \o " (" \o device \o ")"),
         Entry("info", "Type a command and press Enter. Use up/down for history. Type \"clear\" to reset.")>>
  ELSE <<Entry("stderr", "No device connected. Go back and connect a device first.")>>

\* A shell session as mounted, beside a performance page that is not
\* started.
ShellInit ==
  /\ PageInit
  /\ family = "sched"
  /\ shell \in {"page", "panel"}
  /\ shellLeft = FALSE
  /\ shellInvoke \in BOOLEAN
  /\ \E serial \in ShellSerials(shell), got \in ShellDeviceOutcomes :
       shellDevice = MountedDevice(shell, shellInvoke, serial, got)
  /\ shellHistory = MountedHistory(shell, shellDevice)
  /\ inputValue = ""
  /\ isExecuting = FALSE
  /\ commandHistory = <<>>
  /\ historyIndex = -1
  /\ running = {}
  /\ submitted = 0
  /\ calls = 0
  /\ handled = [cmd |-> "", how |-> "none"]

pageVars ==
  <<phase, family, progVars, inflight, pushed, chartSeed, ticks, fetches, idleTicks,
    pollStart, lastDone, cpuMonotone>>

\* The session is there to receive events.
ShellOpen == shell # "none" /\ ~shellLeft

\* The input accepts keys: disabled={isExecuting || !selectedDevice} at
\* line 296, disabled={isExecuting} in the panel.
InputEnabled == ~isExecuting /\ (shell = "page" => shellDevice # "")

\* bind:value at line 288: the user edits the input.
Type ==
  /\ ShellOpen /\ InputEnabled
  /\ \E text \in ShellInputs : inputValue' = text
  /\ UNCHANGED <<pageVars, shell, shellLeft, shellInvoke, shellDevice, shellHistory,
                 isExecuting, commandHistory, historyIndex, running, submitted, calls,
                 handled>>

\* The guard without the executing flag.
SubmitGuardNoFlag(cmd) == cmd = ""

\* line 77: if (!cmd || isExecuting) return
SubmitGuard(cmd) == cmd = "" \/ isExecuting

\* lines 79-82: the command appended unless it repeats the latest one.
Remember(cmd) ==
  IF Len(commandHistory) = 0 \/ commandHistory[Len(commandHistory)] # cmd
  THEN LET more == Append(commandHistory, cmd)
       IN IF Len(more) > HistoryCap THEN Tail(more) ELSE more
  ELSE commandHistory

\* executeCommand up to its first await: lines 76-88.
Submit ==
  /\ ShellOpen
  /\ LET cmd == Trim(inputValue)
     IN IF SubmitGuard(cmd)
        THEN /\ handled' = IF cmd # "" THEN [cmd |-> cmd, how |-> "refused"] ELSE handled
             /\ UNCHANGED <<shellHistory, inputValue, isExecuting, commandHistory,
                            historyIndex, running, submitted>>
        ELSE /\ submitted < MaxCommands
             /\ UNCHANGED handled
             /\ commandHistory' = Remember(cmd)
             /\ historyIndex' = -1
             /\ shellHistory' = Append(shellHistory, Entry("input", cmd))
             /\ inputValue' = ""
             /\ isExecuting' = TRUE
             /\ running' = running \cup {[id |-> submitted + 1, cmd |-> cmd, at |-> "scroll"]}
             /\ submitted' = submitted + 1
  /\ UNCHANGED <<pageVars, shell, shellLeft, shellInvoke, shellDevice, calls>>

\* line 102: invoke && selectedDevice; line 60 of the panel: invoke.
CanInvoke == shellInvoke /\ (shell = "page" => shellDevice # "")

\* lines 131-137, ShellPanel lines 83-86.
UnavailableText ==
  IF shell = "page" /\ shellInvoke THEN "No device selected"
  ELSE "Shell not available in mock mode"

\* lines 96-99: window.history.back(); return, the flag left set.
ExitReturns == isExecuting' = isExecuting

\* executeCommand from its first await to its second or to its end:
\* lines 90-106 and 130-145.
Resume ==
  /\ ShellOpen
  /\ \E r \in running :
       /\ r.at = "scroll"
       /\ IF r.cmd = "clear"
          THEN /\ shellHistory' = <<>>
               /\ isExecuting' = FALSE
               /\ running' = running \ {r}
               /\ handled' = [cmd |-> r.cmd, how |-> "clear"]
               /\ UNCHANGED <<shellLeft, calls>>
          ELSE IF shell = "page" /\ r.cmd = "exit"
          THEN /\ shellLeft' \in BOOLEAN
               /\ ExitReturns
               /\ running' = running \ {r}
               /\ handled' = [cmd |-> r.cmd, how |-> "exit"]
               /\ UNCHANGED <<shellHistory, calls>>
          ELSE IF CanInvoke
          THEN /\ running' = (running \ {r}) \cup {[r EXCEPT !.at = "invoke"]}
               /\ calls' = calls + 1
               /\ UNCHANGED <<shellHistory, isExecuting, shellLeft, handled>>
          ELSE /\ shellHistory' = Append(shellHistory, Entry("stderr", UnavailableText))
               /\ isExecuting' = FALSE
               /\ running' = running \ {r}
               /\ handled' = [cmd |-> r.cmd, how |-> "unavailable"]
               /\ UNCHANGED <<shellLeft, calls>>
  /\ UNCHANGED <<pageVars, shell, shellInvoke, shellDevice, inputValue, commandHistory,
                 historyIndex, submitted>>

\* line 126, ShellPanel line 79: the entry for a command without output.
ExitInfo(result) ==
  IF shell = "page"
  THEN "exit: " \o ToString(result.exit_code) \o " (" \o ToString(result.duration_ms) \o "ms)"
  ELSE "Command completed (exit: " \o ToString(result.exit_code) \o ", "
         \o ToString(result.duration_ms) \o "ms)"

\* lines 108-129: the entries a result adds.
ResultEntries(result) ==
  (IF result.stdout # "" THEN <<Entry("stdout", result.stdout)>> ELSE <<>>)
    \o (IF result.stderr # "" THEN <<Entry("stderr", result.stderr)>> ELSE <<>>)
    \o (IF result.stdout = "" /\ result.stderr = ""
        THEN <<Entry("info", ExitInfo(result))>> ELSE <<>>)

\* execute_shell_command resolves: lines 103-129, then finally.
CallResolve ==
  /\ ShellOpen
  /\ \E r \in running, res \in ShellOutcomes :
       /\ r.at = "invoke"
       /\ res.kind = "resolve"
       /\ shellHistory' = shellHistory \o ResultEntries(res.v)
       /\ isExecuting' = FALSE
       /\ running' = running \ {r}
       /\ handled' = [cmd |-> r.cmd, how |-> "resolved"]
  /\ UNCHANGED <<pageVars, shell, shellLeft, shellInvoke, shellDevice, inputValue,
                 commandHistory, historyIndex, submitted, calls>>

\* execute_shell_command rejects: catch and finally, lines 139-145.
CallReject ==
  /\ ShellOpen
  /\ \E r \in running, res \in ShellOutcomes :
       /\ r.at = "invoke"
       /\ res.kind = "reject"
       /\ shellHistory' = Append(shellHistory, Entry("stderr", res.e))
       /\ isExecuting' = FALSE
       /\ running' = running \ {r}
       /\ handled' = [cmd |-> r.cmd, how |-> "rejected"]
  /\ UNCHANGED <<pageVars, shell, shellLeft, shellInvoke, shellDevice, inputValue,
                 commandHistory, historyIndex, submitted, calls>>

\* handleKeydown, ArrowUp: lines 152-160.  historyIndex counts from 0.
ArrowUp ==
  /\ ShellOpen /\ InputEnabled
  /\ IF Len(commandHistory) = 0
     THEN UNCHANGED <<historyIndex, inputValue>>
     ELSE /\ historyIndex' = IF historyIndex = -1 THEN Len(commandHistory) - 1
                              ELSE IF historyIndex > 0 THEN historyIndex - 1
                              ELSE historyIndex
          /\ inputValue' = commandHistory[historyIndex' + 1]
  /\ UNCHANGED <<pageVars, shell, shellLeft, shellInvoke, shellDevice, shellHistory,
                 isExecuting, commandHistory, running, submitted, calls, handled>>

\* handleKeydown, ArrowDown: lines 161-171.
ArrowDown ==
  /\ ShellOpen /\ InputEnabled
  /\ IF historyIndex = -1
     THEN UNCHANGED <<historyIndex, inputValue>>
     ELSE IF historyIndex < Len(commandHistory) - 1
     THEN /\ historyIndex' = historyIndex + 1
          /\ inputValue' = commandHistory[historyIndex' + 1]
     ELSE /\ historyIndex' = -1
          /\ inputValue' = ""
  /\ UNCHANGED <<pageVars, shell, shellLeft, shellInvoke, shellDevice, shellHistory,
                 isExecuting, commandHistory, running, submitted, calls, handled>>

\* clearOutput: lines 174-176.
ClearOutput ==
  /\ ShellOpen
  /\ shellHistory' = <<>>
  /\ UNCHANGED <<pageVars, shell, shellLeft, shellInvoke, shellDevice, inputValue,
                 isExecuting, commandHistory, historyIndex, running, submitted, calls,
                 handled>>

\* goBack: lines 178-180.  The route is left if there is an entry to go
\* back to.
GoBack ==
  /\ ShellOpen /\ shell = "page"
  /\ shellLeft' \in BOOLEAN
  /\ UNCHANGED <<pageVars, shell, shellInvoke, shellDevice, shellHistory, inputValue,
                 isExecuting, commandHistory, historyIndex, running, submitted, calls,
                 handled>>

ShellNext ==
  \/ Type
  \/ Submit
  \/ Resume
  \/ CallResolve
  \/ CallReject
  \/ ArrowUp
  \/ ArrowDown
  \/ ClearOutput
  \/ GoBack

ShellSpec == ShellInit /\ [][ShellNext]_vars

(***************************************************************************)
(* The handlers without the template's disabled attributes.  With them     *)
(* (lines 296 and 303) no key and no click reaches executeCommand while a  *)
(* command is executing, and the input is empty all that time.  Here the   *)
(* input's value is also set while the input is disabled, as a script or   *)
(* a test driving the element would, so that executeCommand is entered     *)
(* with a command while one is executing.                                  *)
(***************************************************************************)
\* bind:value at line 288, on a disabled input.
TypeDisabled ==
  /\ ShellOpen /\ ~InputEnabled
  /\ \E text \in ShellInputs : inputValue' = text
  /\ UNCHANGED <<pageVars, shell, shellLeft, shellInvoke, shellDevice, shellHistory,
                 isExecuting, commandHistory, historyIndex, running, submitted, calls,
                 handled>>

HandlerNext ==
  \/ ShellNext
  \/ TypeDisabled

HandlerSpec == ShellInit /\ [][HandlerNext]_vars

(***************************************************************************)
(* Steps, as the properties below name them.                               *)
(***************************************************************************)
\* The timer fires.
TickStep == ticks' = ticks + 1

\* The poll r stops being in flight: its callback runs to its end.
Completes(r) == r \in inflight /\ \A q \in inflight' : q.id # r.id

Failures == {"topReject", "perfReject", "perfThrow"}

(***************************************************************************)
(* The poll scheduler.                                                     *)
(***************************************************************************)

\* C1: single flight.  In every reachable state at most one poll (the
\* callback suspended at get_top_package or at get_performance_profile) is
\* in flight, however many ticks have fired since it was issued.
C1_SingleFlight == Cardinality(inflight) <= 1

\* A poll is still awaiting its fetch after two further ticks have fired.
C1_Witness == Cardinality(inflight) = 1 /\ fetches = 1 /\ ticks = 3

\* C2: the guard is released on every way a poll can end.  A step that
\* ends a poll (resolved and applied, rejected, or thrown while applying)
\* leaves isPolling false; the first tick after a failed poll, with a device
\* selected, issues a new poll; and the number of polls issued changes only
\* in a step of the timer.
C2_GuardReleased ==
  [][ /\ \A r \in inflight : Completes(r) => isPolling' = FALSE
      /\ (TickStep /\ lastDone.op \in Failures /\ lastDone.at = ticks
            /\ selectedDevice # "")
           => (fetches' = fetches + 1 /\ \E q \in inflight' : q.id = fetches')
      /\ (fetches' # fetches \/ \E q \in inflight' : \A r \in inflight : q.id # r.id)
           => TickStep ]_vars

\* A poll ended by an exception thrown while applying, and the next tick
\* has issued the second poll.
C2_Witness ==
  lastDone.op = "perfThrow" /\ lastDone.id = 1 /\ fetches = 2 /\ Cardinality(inflight) = 1

\* C3: a tick that fires with no device selected, or with a poll in flight,
\* changes nothing the page shows or keeps (values, series, stored counters,
\* error notice, guard) and issues nothing; and polls issued never outnumber
\* the ticks that fired with a device selected and nothing in flight.
C3_TickNoOp ==
  [][ /\ (TickStep /\ (selectedDevice = "" \/ inflight # {}))
           => UNCHANGED <<progVars, inflight, fetches>>
      /\ fetches' <= idleTicks' ]_vars

\* Two ticks have fired in a Tauri session without a device, and no poll
\* was issued.
C3_Witness ==
  phase = "polling" /\ isTauri /\ selectedDevice = "" /\ ticks = 2 /\ fetches = 0

(***************************************************************************)
(* Failures.                                                               *)
(***************************************************************************)
Rejections == {"topReject", "perfReject"}

\* The poll in flight ends because one of its transport calls rejected.
RejectedStep == \E r \in inflight : Completes(r) /\ lastDone'.op \in Rejections

\* The poll in flight ends with its profile applied.
AppliedStep == \E r \in inflight : Completes(r) /\ lastDone'.op = "applied"

\* The profile of a step that applies one.
Applied == lastDone'.perf.v

\* C4, as claimed: when a poll fails because a transport call rejects,
\* every displayed value (the foreground app among them), every series and
\* the stored counters are what they were when the poll was issued, and the
\* error notice holds the error.  Between the issue of a poll and its end
\* only the step that ends it can change a derived value or a series, so
\* these are what they were at the issue if the step leaves them unchanged.
C4_Original ==
  [][ /\ (phase = "polling" /\ ~AppliedStep) => UNCHANGED displayVars
      /\ RejectedStep =>
           /\ UNCHANGED displayVars
           /\ topPackageName' = pollStart.topPackageName
           /\ error' = lastDone'.e ]_vars

\* C4, amended: as claimed for everything but the foreground app, which is
\* what it was when the poll was issued if get_top_package is the call that
\* rejected; if get_performance_profile rejected, the step leaves it as
\* get_top_package's result of the same poll set it.
C4_Amended ==
  [][ /\ (phase = "polling" /\ ~AppliedStep) => UNCHANGED displayVars
      /\ RejectedStep =>
           /\ UNCHANGED displayVars
           /\ error' = lastDone'.e
           /\ error' # ""
           /\ topPackageName' = topPackageName
           /\ lastDone'.op = "topReject" => topPackageName' = pollStart.topPackageName ]_vars

\* The second poll was rejected at get_performance_profile after the first
\* had stored readings, and shows a foreground app it did not start with.
C4_Witness ==
  /\ lastDone.op = "perfReject" /\ lastDone.id = 2 /\ fetches = 2
  /\ lastCpuData # Null /\ currentMem = 75
  /\ error = "device offline"
  /\ topPackageName # pollStart.topPackageName

\* The variables that belong to field f of the profile, in d.
FieldView(f, d) ==
  CASE f = "memory" -> <<d.currentMem, d.memStr, d.dataMem, d.pushed.mem>>
    [] f = "uptime" -> <<d.uptimeStr>>
    [] f = "cpu" -> <<d.currentCpu, d.coreUsages, d.coreSpeeds, d.dataCpu, d.dataCores,
                      d.lastCpuData, d.pushed.cpu, d.pushed.cores>>
    [] f = "fps" -> <<d.currentFps, d.dataFps, d.lastFpsData, d.pushed.fps>>

\* profile with each Err field replaced by an Ok value, in several ways.
Completions(profile) ==
  {[f \in FieldNames |-> IF profile[f].tag = "Err" THEN SampleProfile(k)[f] ELSE profile[f]] :
     k \in 1..(MaxTicks + 1)}

\* C5: field-level failure is isolated.  The step that applies a profile
\* (the only step of a poll that changes a derived value or a series)
\* leaves the displayed value, series and stored reading of each field
\* returned as Err as they were, leaves the error notice as it was, and
\* gives each field returned Ok what it would get had the Err fields been
\* Ok too.
C5_FieldIsolation ==
  [][ /\ (phase = "polling" /\ ~AppliedStep) => UNCHANGED displayVars
      /\ AppliedStep =>
           /\ error' = error
           /\ \A f \in FieldNames :
                Applied[f].tag = "Err" => FieldView(f, Display') = FieldView(f, Display)
           /\ \A full \in Completions(Applied) : \A f \in FieldNames :
                Applied[f].tag = "Ok" =>
                  FieldView(f, Display') = FieldView(f, ApplyPerf(Display, full)) ]_vars

\* The second poll returned memory Err with cpu and fps Ok: memory still
\* shows the first poll's 75, CPU and FPS show the new deltas.
C5_Witness ==
  /\ lastDone.op = "applied" /\ lastDone.id = 2 /\ fetches = 2 /\ inflight = {}
  /\ lastDone.perf.v.memory.tag = "Err"
  /\ lastDone.perf.v.cpu.tag = "Ok" /\ lastDone.perf.v.fps.tag = "Ok"
  /\ currentMem = 75 /\ currentCpu = 83 /\ currentFps = 30

\* C6: a failure to obtain the foreground app does not invalidate the rest
\* of the poll.  Whenever the await of get_top_package ends without giving
\* a new name, the same poll goes on to fetch the performance profile.
C6_TopFailureIsolated ==
  [][ \A r \in inflight :
        (r.stage = "top" /\ r \notin inflight' /\ topPackageName' = topPackageName)
          => \E q \in inflight' : q.id = r.id /\ q.stage = "perf" ]_vars

(***************************************************************************)
(* The session.                                                            *)
(***************************************************************************)

C9_CpuInRange ==
  cpuMonotone =>
    /\ currentCpu \in 0..100
    /\ \A i \in 1..Len(pushed.cpu) : pushed.cpu[i] \in 0..100

\* Three readings in a row without a decrease, the last delta giving 83.
C9_Witness ==
  family = "cpu" /\ cpuMonotone /\ currentCpu = 83 /\ Len(pushed.cpu) = 3

\* The last n elements of s.
LastN(s, n) == SubSeq(s, Len(s) - n + 1, Len(s))

\* What each series was filled with: zeros at construction, and for the
\* three aggregate series the generated data once the charts are built.
Fill(min, max) ==
  IF chartSeed = -1 THEN Zeros(SeriesLen) ELSE GenData(SeriesLen, min, max, chartSeed)

\* C10: every series has its fixed length and holds exactly the latest
\* values that arrived in it (its fill, then each push), in arrival order:
\* 40 for aggregate CPU, memory and FPS, 25 for each of the 8 per-core
\* series.
C10_SeriesInvariant ==
  /\ Len(dataCpu) = SeriesLen
  /\ dataCpu = LastN(Fill(20, 40) \o pushed.cpu, SeriesLen)
  /\ Len(dataMem) = SeriesLen
  /\ dataMem = LastN(Fill(50, 70) \o pushed.mem, SeriesLen)
  /\ Len(dataFps) = SeriesLen
  /\ dataFps = LastN(Fill(0, 10) \o pushed.fps, SeriesLen)
  /\ DOMAIN dataCores = CoreIdx
  /\ \A i \in CoreIdx :
       /\ Len(dataCores[i]) = CoreSeriesLen
       /\ dataCores[i] = LastN(Zeros(CoreSeriesLen) \o pushed.cores[i], CoreSeriesLen)

\* The series have received different numbers of pushes: three for CPU,
\* one for memory, two for FPS, two for core 0 and core 1, none for core 2.
C10_Witness ==
  /\ Len(pushed.cpu) = 3
  /\ Len(pushed.mem) = 1
  /\ Len(pushed.fps) = 2
  /\ Len(pushed.cores[0]) = 2
  /\ Len(pushed.cores[1]) = 2
  /\ Len(pushed.cores[2]) = 0
  /\ dataCpu[SeriesLen] = currentCpu /\ dataCpu[SeriesLen - 3] # dataCpu[SeriesLen - 4]

(***************************************************************************)
(* The derivation.                                                         *)
(***************************************************************************)

\* C11: while no previous successful reading exists a poll derives nothing.
\* Until a second successful CPU reading has been applied, the aggregate
\* CPU percentage and all eight per-core percentages are the default 0 and
\* so is what was pushed to their series; until a second successful display
\* reading has been applied, the FPS is the default 0.  The stored reading
\* is null exactly as long as no reading was applied.
C11_NoDerivationWithoutPrevious ==
  /\ (lastCpuData = Null) <=> (Len(pushed.cpu) = 0)
  /\ (lastFpsData = Null) <=> (Len(pushed.fps) = 0)
  /\ Len(pushed.cpu) <= 1 =>
       /\ currentCpu = 0
       /\ \A i \in CoreIdx : coreUsages[i] = 0 /\ pushed.cores[i] = <<>>
       /\ \A k \in 1..Len(pushed.cpu) : pushed.cpu[k] = 0
  /\ Len(pushed.fps) <= 1 =>
       /\ currentFps = 0
       /\ \A k \in 1..Len(pushed.fps) : pushed.fps[k] = 0

\* The first poll was applied with all four fields Ok: memory shows 75, the
\* readings are stored, CPU and FPS show 0.
C11_Witness ==
  /\ lastDone.op = "applied" /\ lastDone.id = 1
  /\ Len(pushed.cpu) = 1 /\ Len(pushed.fps) = 1
  /\ lastCpuData # Null /\ lastFpsData # Null
  /\ currentMem = 75 /\ currentCpu = 0 /\ currentFps = 0

\* The sum of the seven tick fields, and idle + iowait, as the properties
\* name them.
TickSum(t) == t.user + t.nice + t.sys + t.idle + t.iowait + t.irq + t.softirq
IdleSum(t) == t.idle + t.iowait

\* p is 100 * (1 - idleDelta / totalDelta) rounded to the nearest integer,
\* a half rounded up, for totalDelta > 0: p - 1/2 <= 100 * (1 - i/t) < p + 1/2.
IsRoundedBusyPct(p, idleDelta, totalDelta) ==
  /\ (2 * p - 1) * totalDelta <= 200 * (totalDelta - idleDelta)
  /\ 200 * (totalDelta - idleDelta) < (2 * p + 1) * totalDelta

\* The name of the core shown in slot i.
CoreName(i) == "cpu" \o ToString(i)

\* The positions after the aggregate entry at which cpus holds core name.
CorePositions(cpus, name) == {k \in 2..Len(cpus) : cpus[k].name = name}

\* A step applies a successful CPU reading while one is stored.
CpuPairStep ==
  /\ AppliedStep
  /\ Applied.cpu.tag = "Ok" /\ Len(Applied.cpu.v) > 0
  /\ lastCpuData # Null

\* C12: the CPU formula.  When a successful CPU reading is applied while a
\* previous one is stored and totalDelta > 0, the aggregate percentage
\* becomes round(100 * (1 - idleDelta / totalDelta)), totalDelta being the
\* difference of the sums of the seven tick fields of the aggregate entry
\* and idleDelta the difference of idle + iowait; so does the percentage of
\* each core cpu0..cpu7 held once by both readings, from that core's ticks.
\* Previous total 400 / idle 200 and current total 460 / idle 210 give 83.
C12_CpuFormula ==
  [][ CpuPairStep =>
        LET cur == Applied.cpu.v
            prev == lastCpuData.v
            totalDelta == TickSum(cur[1].times) - TickSum(prev[1].times)
            idleDelta == IdleSum(cur[1].times) - IdleSum(prev[1].times)
        IN /\ totalDelta > 0 => IsRoundedBusyPct(currentCpu', idleDelta, totalDelta)
           /\ ( /\ TickSum(prev[1].times) = 400 /\ IdleSum(prev[1].times) = 200
                /\ TickSum(cur[1].times) = 460 /\ IdleSum(cur[1].times) = 210 )
                => currentCpu' = 83
           /\ \A i \in CoreIdx :
                \A kc \in CorePositions(cur, CoreName(i)) :
                  \A kp \in 1..Len(prev) :
                    ( /\ Cardinality(CorePositions(cur, CoreName(i))) = 1
                      /\ {k \in 1..Len(prev) : prev[k].name = CoreName(i)} = {kp}
                      /\ TickSum(cur[kc].times) - TickSum(prev[kp].times) > 0 )
                      => IsRoundedBusyPct(coreUsages'[i],
                           IdleSum(cur[kc].times) - IdleSum(prev[kp].times),
                           TickSum(cur[kc].times) - TickSum(prev[kp].times)) ]_vars

\* The second poll diffed total 460 / idle 210 against total 400 /
\* idle 200: the aggregate shows 83, core 0 shows 80 and core 1 shows 86.
C12_Witness ==
  /\ lastDone.op = "applied" /\ lastDone.id = 2 /\ lastCpuData # Null
  /\ TickSum(lastCpuData.v[1].times) = 460 /\ IdleSum(lastCpuData.v[1].times) = 210
  /\ currentCpu = 83 /\ coreUsages[0] = 80 /\ coreUsages[1] = 86

\* A step applies a successful display reading while one is stored.
FpsPairStep ==
  /\ AppliedStep
  /\ Applied.fps.tag = "Ok"
  /\ lastFpsData # Null

\* p is 1000 * deltaFlips / deltaTime rounded to the nearest integer, a
\* half rounded up, for deltaTime > 0.
IsRoundedRate(p, deltaFlips, deltaTime) ==
  /\ (2 * p - 1) * deltaTime <= 2000 * deltaFlips
  /\ 2000 * deltaFlips < (2 * p + 1) * deltaTime

\* C13: the FPS formula.  When a successful display reading is applied
\* whose flip counter is strictly above that of the stored one, the FPS
\* becomes round(1000 * (flips_current - flips_previous) /
\* (timestamp_current - timestamp_previous)) if the elapsed time is
\* positive, and stays what it was if the elapsed time is zero or negative.
\* 1000 flips at 0 ms followed by 1030 flips at 1000 ms gives 30.
C13_FpsFormula ==
  [][ ( /\ FpsPairStep
        /\ Applied.fps.v.flips # Null /\ lastFpsData.v.flips # Null
        /\ Applied.fps.v.flips.v > lastFpsData.v.flips.v ) =>
        LET deltaFlips == Applied.fps.v.flips.v - lastFpsData.v.flips.v
            deltaTime == Applied.fps.v.timestamp_ms - lastFpsData.v.timestamp_ms
        IN /\ deltaTime > 0 => IsRoundedRate(currentFps', deltaFlips, deltaTime)
           /\ deltaTime <= 0 => currentFps' = currentFps
           /\ (lastFpsData.v = Fps(Some(1000), 0) /\ Applied.fps.v = Fps(Some(1030), 1000))
                => currentFps' = 30 ]_vars

\* 1000 flips at 0 ms, 1030 at 2000 ms, then 1050 at 1600 ms: the second
\* reading gave 15, the third rose in flips but not in time and left 15.
C13_Witness ==
  /\ family = "fps"
  /\ pushed.fps = <<0, 15, 15>>
  /\ lastFpsData = Some(Fps(Some(1050), 1600))
  /\ currentFps = 15

\* C14: a static screen.  When a successful display reading is applied
\* whose flip counter equals that of the stored one, the FPS becomes 0,
\* whatever it was.
C14_StaticScreenZero ==
  [][ (FpsPairStep /\ Applied.fps.v.flips = lastFpsData.v.flips) => currentFps' = 0 ]_vars

\* 1000 flips, then 1030 one second later, then 1030 again: the FPS went
\* from 30 to 0.
C14_Witness ==
  /\ family = "fps"
  /\ pushed.fps = <<0, 30, 0>>
  /\ lastFpsData = Some(Fps(Some(1030), 2000))
  /\ currentFps = 0

\* p is 100 * used / total rounded to the nearest integer, a half rounded
\* up, for total > 0.
IsRoundedShare(p, used, total) ==
  /\ (2 * p - 1) * total <= 200 * used
  /\ 200 * used < (2 * p + 1) * total

MetricKeys ==
  {<<"cpu", 0>>, <<"mem", 0>>, <<"memStr", 0>>, <<"fps", 0>>, <<"uptime", 0>>}
    \cup {<<"usage", i>> : i \in CoreIdx} \cup {<<"mhz", i>> : i \in CoreIdx}

Metric(d, k) ==
  CASE k[1] = "cpu" -> d.currentCpu
    [] k[1] = "mem" -> d.currentMem
    [] k[1] = "memStr" -> d.memStr
    [] k[1] = "fps" -> d.currentFps
    [] k[1] = "uptime" -> d.uptimeStr
    [] k[1] = "usage" -> d.coreUsages[k[2]]
    [] k[1] = "mhz" -> d.coreSpeeds[k[2]]

\* d with the stored readings of e in place of its own.
WithPrevious(d, e) ==
  [d EXCEPT !.lastCpuData = e.lastCpuData, !.lastFpsData = e.lastFpsData]

\* The page as constructed: every displayed value at its default.
Defaults ==
  [currentFps |-> 0, currentCpu |-> 0, currentMem |-> 0, memStr |-> "0MB",
   uptimeStr |-> "0:00:00:00", lastFpsData |-> Null, lastCpuData |-> Null,
   dataCpu |-> Zeros(SeriesLen), dataMem |-> Zeros(SeriesLen), dataFps |-> Zeros(SeriesLen),
   dataCores |-> [i \in CoreIdx |-> Zeros(CoreSeriesLen)],
   coreUsages |-> [i \in CoreIdx |-> 0], coreSpeeds |-> [i \in CoreIdx |-> 0],
   pushed |-> [cpu |-> <<>>, mem |-> <<>>, fps |-> <<>>, cores |-> [i \in CoreIdx |-> <<>>]]]

\* C16: deriving is a function of the pair (stored readings, profile).
\* Whenever a profile is applied, applying the same profile once more
\* against the same stored readings gives the same displayed metrics; and
\* applying it against the same stored readings on a page that displays
\* something else gives each metric the same value, except a metric the
\* pair yields no value for, which on either page stays what that page
\* displayed.
C16_Deterministic ==
  [][ AppliedStep =>
        LET again == ApplyPerf(WithPrevious(Display', Display), Applied)
            fresh == WithPrevious(Defaults, Display)
            other == ApplyPerf(fresh, Applied)
        IN /\ \A k \in MetricKeys : Metric(again, k) = Metric(Display', k)
           /\ \A k \in MetricKeys :
                \/ Metric(other, k) = Metric(Display', k)
                \/ /\ Metric(other, k) = Metric(fresh, k)
                   /\ Metric(Display', k) = Metric(Display, k) ]_vars

\* The third poll in a row with all four fields Ok was applied to a page
\* that displayed the values of the second.
C16_Witness ==
  /\ lastDone.op = "applied" /\ lastDone.id = 3 /\ family = "sched"
  /\ pushed.cpu = <<0, 83, 83>> /\ pushed.mem = <<75, 63, 50>> /\ pushed.fps = <<0, 30, 30>>
  /\ coreUsages[0] = 80 /\ coreUsages[1] = 86

CoreInBoth(i, kc, kp) ==
  /\ CorePositions(Applied.cpu.v, CoreName(i)) = {kc}
  /\ {k \in 1..Len(lastCpuData.v) : lastCpuData.v[k].name = CoreName(i)} = {kp}

\* C18: when a successful CPU reading is applied and the totalDelta of a
\* core held by both readings is zero or negative, that core's percentage
\* stays what it was and nothing is pushed to its series.
C18_CoreRetained ==
  [][ CpuPairStep =>
        \A i \in CoreIdx :
          \A kc \in 1..Len(Applied.cpu.v) : \A kp \in 1..Len(lastCpuData.v) :
            ( /\ CoreInBoth(i, kc, kp)
              /\ TickSum(Applied.cpu.v[kc].times) - TickSum(lastCpuData.v[kp].times) <= 0 )
              => /\ coreUsages'[i] = coreUsages[i]
                 /\ pushed'.cores[i] = pushed.cores[i] ]_vars

\* C19: every CPU percentage computed is within 0..100.  When a successful
\* CPU reading is applied while a previous one is stored, the aggregate
\* percentage, if its totalDelta is positive, and the percentage of each
\* core held by both readings, if that core's totalDelta is positive, lie
\* in 0..100 afterwards.
C19_PctClamped ==
  [][ CpuPairStep =>
        /\ TickSum(Applied.cpu.v[1].times) - TickSum(lastCpuData.v[1].times) > 0
             => currentCpu' \in 0..100
        /\ \A i \in CoreIdx :
             \A kc \in 1..Len(Applied.cpu.v) : \A kp \in 1..Len(lastCpuData.v) :
               ( /\ CoreInBoth(i, kc, kp)
                 /\ TickSum(Applied.cpu.v[kc].times) - TickSum(lastCpuData.v[kp].times) > 0 )
                 => coreUsages'[i] \in 0..100 ]_vars

\* speed_mhz || 0
SpeedOf(core) == IF core.speed_mhz = Null THEN 0 ELSE core.speed_mhz.v

\* C20: when a successful CPU reading is applied while a previous one is
\* stored, a core cpu0..cpu7 that the current reading holds and the stored
\* one does not keeps its percentage and its series, and its clock speed
\* becomes the one the current reading gives.
C20_NewCoreSpeedRecorded ==
  [][ CpuPairStep =>
        \A i \in CoreIdx :
          \A kc \in 1..Len(Applied.cpu.v) :
            ( /\ CorePositions(Applied.cpu.v, CoreName(i)) = {kc}
              /\ \A k \in 1..Len(lastCpuData.v) : lastCpuData.v[k].name # CoreName(i) )
              => /\ coreUsages'[i] = coreUsages[i]
                 /\ dataCores'[i] = dataCores[i]
                 /\ coreSpeeds'[i] = SpeedOf(Applied.cpu.v[kc]) ]_vars

(***************************************************************************)
(* Core identity.                                                          *)
(***************************************************************************)

\* The entries after the aggregate one.
CoresOf(cpus) == IF Len(cpus) > 0 THEN Tail(cpus) ELSE <<>>

NamedAmongCores(cpus, name) == \E k \in 1..Len(CoresOf(cpus)) : CoresOf(cpus)[k].name = name

\* The cores of cur that a core of prev from position k on names, in the
\* order in which prev first names them.
RECURSIVE MatchedInOrder(_, _, _)
MatchedInOrder(cur, prev, k) ==
  IF k > Len(prev) THEN <<>>
  ELSE (IF \E j \in 2..(k - 1) : prev[j].name = prev[k].name THEN <<>>
        ELSE SelectSeq(CoresOf(cur), LAMBDA c : c.name = prev[k].name))
       \o MatchedInOrder(cur, prev, k + 1)

\* cur as the device would send it had it kept the order of prev: the
\* aggregate entry, the cores prev names in prev's order, then the others.
InPrevOrder(cur, prev) ==
  <<cur[1]>> \o MatchedInOrder(cur, prev, 2)
    \o SelectSeq(CoresOf(cur), LAMBDA c : ~NamedAmongCores(prev, c.name))

\* What belongs to the eight core slots, in d.
CoreView(d) == <<d.coreUsages, d.coreSpeeds, d.dataCores, d.pushed.cores>>

\* C21: cores are matched by name.  When a successful CPU reading is
\* applied while a previous one is stored, every core slot ends up with the
\* percentage, clock and series it would have had the current reading
\* listed its cores in the order of the stored one: the position of a core
\* in either reading, and the cores the other reading lacks, change nothing.
C21_MatchedByName ==
  [][ CpuPairStep =>
        LET cur == Applied.cpu.v
            prev == lastCpuData.v
        IN CoreView(Display') = CoreView(ApplyCpu(Display, Ok(InPrevOrder(cur, prev)))) ]_vars

\* cpu0, cpu1 were followed by cpu1, cpu0 and then by cpu1 alone: slot 0
\* got 83 once, slot 1 got 86 twice.
C21_Witness ==
  /\ family = "cores" /\ lastDone.op = "applied"
  /\ Len(lastCpuData.v) = 2 /\ lastCpuData.v[2].name = "cpu1"
  /\ pushed.cores[0] = <<83>> /\ pushed.cores[1] = <<86, 86>>
  /\ coreUsages[0] = 83 /\ coreUsages[1] = 86

\* name is one of cpu0..cpu7.
ValidCoreName(name) == \E i \in CoreIdx : name = CoreName(i)

\* cpus without the cores whose name is not one of cpu0..cpu7.
KeepValid(cpus) ==
  <<cpus[1]>> \o SelectSeq(CoresOf(cpus), LAMBDA c : ValidCoreName(c.name))

C23_FlipsFellRetained ==
  [][ ( /\ FpsPairStep
        /\ Applied.fps.v.flips # Null /\ lastFpsData.v.flips # Null
        /\ Applied.fps.v.flips.v < lastFpsData.v.flips.v ) =>
        /\ currentFps' = currentFps
        /\ lastFpsData' = Some(Applied.fps.v) ]_vars

\* 1030 flips at 1000 ms, then 900 at 3000 ms, then 960 at 4000 ms: the
\* fall left the FPS at 0 and the third reading, diffed against the 900,
\* gave 60.
C23_Witness ==
  /\ family = "fps"
  /\ pushed.fps = <<0, 0, 60>>
  /\ lastFpsData = Some(Fps(Some(960), 4000))
  /\ currentFps = 60

\* C24: the first display reading is a baseline only.  When a successful
\* display reading is applied while none is stored, it becomes the stored
\* one, the FPS stays what it was and the FPS series stays as it was.
C24_FirstReadingEmitsNothing ==
  [][ (AppliedStep /\ Applied.fps.tag = "Ok" /\ lastFpsData = Null) =>
        /\ lastFpsData' = Some(Applied.fps.v)
        /\ currentFps' = currentFps
        /\ dataFps' = dataFps
        /\ pushed'.fps = pushed.fps ]_vars

\* Field f of profile holds a reading: it is Ok and, for the CPU, lists at
\* least the aggregate entry.
HoldsReading(profile, f) ==
  profile[f].tag = "Ok" /\ (f = "cpu" => Len(profile[f].v) > 0)

\* The reading field f of profile leaves stored: the field's value if it
\* holds one, nothing otherwise.
BaselineOf(profile, f) == IF HoldsReading(profile, f) THEN Some(profile[f].v) ELSE Null

\* C25: the stored readings are replaced as a whole.  After a profile in
\* which at least one field holds a reading is applied, the stored CPU
\* reading and the stored display reading are those of that profile: none
\* is left over from an earlier poll.
C25_BaselinesFromLatestFetch ==
  [][ (AppliedStep /\ \E f \in FieldNames : HoldsReading(Applied, f)) =>
        /\ lastCpuData' = BaselineOf(Applied, "cpu")
        /\ lastFpsData' = BaselineOf(Applied, "fps") ]_vars

(***************************************************************************)
(* Memory, uptime and the error notice.                                    *)
(***************************************************************************)

\* C26: the displayed memory percentage is an integer in 0..100 in every
\* reachable state, whatever successful memory readings the polls applied.
C26_MemoryPctInRange == currentMem \in 0..100

\* C27, as claimed: when a successful memory reading is applied, the label
\* becomes (total - available) divided by 1024, rounded down, followed by
\* MB.
C27_MemoryLabelFloor ==
  [][ (AppliedStep /\ Applied.memory.tag = "Ok") =>
        memStr' = ToString((Applied.memory.v.total_kb - Applied.memory.v.available_kb)
                             \div 1024) \o "MB" ]_vars

\* n / 1024 to the nearest integer, a half going up: the quotient rounded
\* down, and one more when the remainder is at least 512.
NearestMb(n) == IF n % 1024 >= 512 THEN (n \div 1024) + 1 ELSE n \div 1024

\* C27, amended: when a successful memory reading is applied, the label
\* becomes (total - available) divided by 1024, rounded to the nearest
\* integer (a half going up), followed by MB.
C27_MemoryLabelRounded ==
  [][ (AppliedStep /\ Applied.memory.tag = "Ok") =>
        memStr' = ToString(NearestMb(Applied.memory.v.total_kb - Applied.memory.v.available_kb))
                    \o "MB" ]_vars

\* 5000000 kB in use, 4882.8 MB, is shown as 4883MB.
C27_Witness ==
  /\ lastDone.op = "applied" /\ lastDone.perf.v.memory = Ok(Mem(8000000, 3000000))
  /\ memStr = "4883MB"

\* n in two digits, for n in 0..59.
TwoDigits(n) == ToString(n \div 10) \o ToString(n % 10)

\* H:MM:SS of s seconds, after the day count when there is at least a day.
UptimeLabel(s) ==
  LET days == s \div 86400
      hms == ToString((s % 86400) \div 3600) \o ":" \o TwoDigits((s % 3600) \div 60)
               \o ":" \o TwoDigits(s % 60)
  IN IF days > 0 THEN ToString(days) \o "d " \o hms ELSE hms

\* C28: the uptime label.  When a successful uptime reading of s seconds
\* is applied, the label becomes H:MM:SS built from hours = (s mod 86400)
\* div 3600, minutes = (s mod 3600) div 60 and seconds = s mod 60, minutes
\* and seconds in two digits, with "<days>d " in front when s div 86400 > 0.
C28_UptimeLabel ==
  [][ (AppliedStep /\ Applied.uptime.tag = "Ok") =>
        uptimeStr' = UptimeLabel(Applied.uptime.v) ]_vars

\* C29: the poll loop never clears the error notice.  Once the interval
\* runs, the notice changes only in a step that ends a poll by a failure,
\* which sets it to that failure's text; a step that applies a profile
\* leaves it as it is.
C29_ErrorNeverCleared ==
  [][ phase = "polling" =>
        /\ error' # error =>
             (\E r \in inflight : Completes(r)) /\ lastDone'.op \in Failures
        /\ ((\E r \in inflight : Completes(r)) /\ lastDone'.op \in Failures) =>
             (error' = lastDone'.e /\ error' # "")
        /\ AppliedStep => error' = error ]_vars

\* The first poll was rejected; the second and the third were applied in
\* full and the notice still shows the rejection.
C29_Witness ==
  /\ lastDone.op = "applied" /\ lastDone.id = 3 /\ inflight = {}
  /\ pushed.mem = <<63, 50>> /\ pushed.cpu = <<0, 83>>
  /\ error = "device offline"

(***************************************************************************)
(* The shell session.                                                      *)
(***************************************************************************)

\* The executeCommand call r runs to its end.
Handled(r) == r \in running /\ \A q \in running' : q.id # r.id

\* C30: the executing flag is released.  Whenever the handling of a
\* submitted command ends (the built-ins clear and exit, a command whose
\* call resolved or rejected, a command that could not be sent) and the
\* session is still open, the executing flag is false; so while the flag
\* is set a command is still being handled.
C30_ExecutingReleased ==
  [][ \A r \in running : (Handled(r) /\ ~shellLeft') => isExecuting' = FALSE ]_vars

\* The execute_shell_command calls awaited.
InFlight == {r \in running : r.at = "invoke"}

\* A step appends a command to the output history.
AppendsInput ==
  /\ Len(shellHistory') = Len(shellHistory) + 1
  /\ shellHistory'[Len(shellHistory')].type = "input"

\* C31: one backend command at a time.  At most one execute_shell_command
\* call is awaited at any moment, and while a command is executing no step,
\* so no submission either, starts the handling of a command, issues a
\* call, appends a command to the output history or changes the command
\* history; a submission refused while executing changes none of calls,
\* output history, command history and commands being handled.
C31_OneCommandAtATime ==
  [][ /\ Cardinality(InFlight') <= 1
      /\ isExecuting =>
           /\ \A q \in running' : \E r \in running : r.id = q.id
           /\ calls' > calls => InFlight = {}
           /\ ~AppendsInput
           /\ commandHistory' = commandHistory
      /\ (handled'.how = "refused" /\ handled' # handled) =>
           UNCHANGED <<calls, shellHistory, commandHistory, running, isExecuting>> ]_vars

\* A command was submitted while the call of another was awaited, and was
\* refused: one call, one command in both histories.
C31_Witness ==
  /\ handled = [cmd |-> "id", how |-> "refused"]
  /\ isExecuting
  /\ calls = 1
  /\ \E r \in InFlight : r.cmd = "ls"
  /\ commandHistory = <<"ls">>
  /\ inputValue = " id "

====
